---- MODULE Spec2Model ----
(***************************************************************************)
(* Classroom-management API: the route handlers of server/routes.ts over   *)
(* the storage layer (SupabaseStorage, the default export of               *)
(* server/storage.ts) and the relational schema of server/migrations.ts.   *)
(*                                                                         *)
(* A state is the content of the tables plus the submit requests that have *)
(* passed their pre-checks and await createSubmission.  Every route has a   *)
(* response operator, the status and message the handler answers with as a *)
(* function of the tables and the request, and an action, guarded by that  *)
(* response being a success, which applies the handler's writes; a request *)
(* that is rejected changes nothing, which is a stuttering step.           *)
(* The submit handler is two actions, split at the                         *)
(* await between its "existing submission" pre-check and its insert, so    *)
(* that two requests can interleave there.                                 *)
(*                                                                         *)
(* Numbers of a JSON body are modelled in tenths (Scale): 505 is 50.5.     *)
(***************************************************************************)
EXTENDS Integers, FiniteSets, Sequences, Bags, TLC

\* ------------------------------------------------------------------ bounds
\* Spec: requests handled one at a time
MaxGroups == 2              \* groups ever created
MaxTasks == 1               \* tasks ever created
MaxSubmissions == 1         \* submission rows ever inserted
MaxAnnouncements == 1       \* announcements ever created
\* SpecRace: submit requests interleave between pre-check and insert
RaceMaxGroups == 1
RaceMaxTasks == 1
RaceMaxSubmissions == 2
RaceMaxInflight == 2        \* submit requests between pre-check and insert

\* SpecAuth: registrations interleave between pre-check and insert
AuthMaxUsers == 2           \* users ever registered
AuthMaxInflight == 2        \* register requests between pre-check and insert

\* SpecGroupRace: group creations and joins interleave between pre-check and insert
GroupRaceMaxGroups == 2
GroupRaceMaxInflight == 2   \* create and join requests between pre-check and insert

\* the quiz specification
QuizMaxGroups == 2
QuizMaxTasks == 2

\* ------------------------------------------------------------------ users
Teachers == {"t1", "t2"}
Students == {"s1", "s2"}
Users == Teachers \cup Students

role(u) == IF u \in Teachers THEN "teacher" ELSE "student"

\* ------------------------------------------------------------------ values
NullId == 0                 \* SQL NULL in an id column
NullText == "<null>"        \* SQL NULL in a text column
NullScore == -1000000       \* SQL NULL in the score column
NotANumber == 1000000       \* a body whose score is missing or not a number
Scale == 10                 \* numbers are held in tenths

GroupIds == 1..MaxGroups
TaskIds == 1..MaxTasks
SubmissionIds == 1..RaceMaxSubmissions

Codes == {"AB3K7Q", "ZZ9Y8X"}
JoinCodeInputs == Codes \cup {"ABC"}
GroupNameInputs == {"M", "Math101"}
TitleInputs == {"H", "HW1"}
DescriptionInputs == {"", "Solve it"}
MessageInputs == {"", "Exam on Friday"}
TextInputs == {"", "42"}
FileInputs == {"none", "good", "bad"}
ScoreInputs == {NotANumber, -5 * Scale, 0, 505, 95 * Scale, 100 * Scale, 150 * Scale}

\* the "status" of a submit request that passed its pre-checks and awaits
\* createSubmission: no response has been sent yet
Pending == 0

NameInputs == {"A", "Ann"}
EmailInputs == {"nope", "ann@x.io", "bob@x.io"}
PasswordInputs == {"abc", "secret1", "hunter22"}
RoleInputs == {"teacher", "student", "admin"}

\* quiz questions as the form builds them: options is the array the client
\* serialises with JSON.stringify, correctAnswer the letter of an option
optionLetters == <<"A", "B", "C", "D">>
QuestionInputs ==
    {[questionText |-> "2+2?", options |-> <<"3", "4", "5", "6">>, correctAnswer |-> "B"],
     [questionText |-> "", options |-> <<"3", "4", "5", "6">>, correctAnswer |-> "A"],
     [questionText |-> "2+2?", options |-> <<"3", "4", "5", "6">>, correctAnswer |-> ""],
     [questionText |-> "Capital?", options |-> <<"Paris", "", "", "">>, correctAnswer |-> "A"],
     [questionText |-> "Capital?", options |-> <<"Paris", "Rome", "", "">>,
      correctAnswer |-> "D"]}
QuestionsInputs == {<<>>} \cup {<<q>> : q \in QuestionInputs}
                     \cup {<<q1, q2>> : q1 \in QuestionInputs, q2 \in QuestionInputs}

VARIABLES users, groups, groupMembers, tasks, submissions, announcements,
          nextUserId, nextGroupId, nextTaskId, nextSubmissionId, nextAnnouncementId,
          now, inflight

tables == <<groups, groupMembers, tasks, submissions, announcements>>
counters == <<nextGroupId, nextTaskId, nextSubmissionId, nextAnnouncementId, now>>
accounts == <<users, nextUserId>>
vars == <<users, groups, groupMembers, tasks, submissions, announcements,
          nextUserId, nextGroupId, nextTaskId, nextSubmissionId, nextAnnouncementId,
          now, inflight>>

\* ------------------------------------------------------------------ schemas
\* z.string().min(n)
MinLen(s, n) == Len(s) >= n

insertGroupSchema(name) == MinLen(name, 2)

joinGroupSchema(joinCode) == MinLen(joinCode, 6) /\ Len(joinCode) <= 6

insertTextTaskSchema(title, description) == MinLen(title, 2) /\ MinLen(description, 1)

\* questionText min(1), correctAnswer min(1); options is an optional string
\* that the schema does not look into
questionSchema(q) == MinLen(q.questionText, 1) /\ MinLen(q.correctAnswer, 1)

\* title, description and z.array(questionSchema).min(1)
insertQuizTaskSchema(title, description, questions) ==
    /\ MinLen(title, 2)
    /\ MinLen(description, 1)
    /\ Len(questions) >= 1
    /\ \A i \in DOMAIN questions : questionSchema(questions[i])

\* the quiz form's own check before it sends the request
handleSubmitQuiz(questions) ==
    /\ Len(questions) # 0
    /\ \A i \in DOMAIN questions :
          questions[i].questionText # "" /\ questions[i].correctAnswer # ""

insertAnnouncementSchema(message) == MinLen(message, 1)

\* the score schema without .max(100)
updateScoreSchemaNoMax(score) ==
    /\ score # NotANumber
    /\ score >= 0 * Scale

\* z.number().min(0).max(100): any number in the closed range, integer or not
updateScoreSchema(score) ==
    /\ score # NotANumber
    /\ score >= 0 * Scale
    /\ score <= 100 * Scale

\* multer: fileFilter and the fileSize limit turn a bad upload into an error
uploadAccepted(file) == file # "bad"

fileUrlOf(file) == IF file = "good" THEN "/uploads/f" ELSE NullText

\* data.textContent || null
textOrNull(text) == IF text = "" THEN NullText ELSE text

\* ------------------------------------------------------------------ storage reads
\* .single() yields a row only when exactly one row matches
Single(rows) == Cardinality(rows) = 1

TheRow(rows) == CHOOSE r \in rows : TRUE

groupRows(id) == {g \in groups : g.id = id}
hasGroup(id) == Single(groupRows(id))
getGroupById(id) == TheRow(groupRows(id))

joinCodeRows(joinCode) == {g \in groups : g.joinCode = joinCode}
hasJoinCode(joinCode) == Single(joinCodeRows(joinCode))
getGroupByJoinCode(joinCode) == TheRow(joinCodeRows(joinCode))

memberRows(groupId, userId) ==
    {m \in groupMembers : m.groupId = groupId /\ m.userId = userId}
isMemberOfGroup(groupId, userId) == Single(memberRows(groupId, userId))

taskRows(id) == {t \in tasks : t.id = id}
hasTask(id) == Single(taskRows(id))
getTaskById(id) == TheRow(taskRows(id))

submissionRows(id) == {s \in submissions : s.id = id}
hasSubmission(id) == Single(submissionRows(id))
getSubmissionById(id) == TheRow(submissionRows(id))

submissionsFor(taskId, studentId) ==
    {s \in submissions : s.taskId = taskId /\ s.studentId = studentId}
hasSubmissionForTask(taskId, studentId) == Single(submissionsFor(taskId, studentId))

getSubmissionForTask(taskId, studentId) == TheRow(submissionsFor(taskId, studentId))

\* a list of the task's submissions that leaves the graded ones out
getSubmissionsForTaskPending(taskId) ==
    {s \in submissions : s.taskId = taskId /\ s.score = NullScore}

getSubmissionsForTask(taskId) == {s \in submissions : s.taskId = taskId}

getTasksForGroup(groupId) == {t \in tasks : t.groupId = groupId}

\* the tasks of the group, then the submissions whose taskId is among them
getSubmissionsForGroup(groupId) ==
    LET taskIds == {t.id : t \in {t \in tasks : t.groupId = groupId}}
    IN  IF taskIds = {} THEN {} ELSE {s \in submissions : s.taskId \in taskIds}

getAnnouncementsForGroup(groupId) == {a \in announcements : a.groupId = groupId}

isOwner(groupId, userId) == hasGroup(groupId) /\ getGroupById(groupId).ownerId = userId

\* ------------------------------------------------------------------ constraints
\* a submissions table without the UNIQUE(task_id, student_id) constraint
submissionUniqueDropped(taskId, studentId) == TRUE

\* submissions: UNIQUE(task_id, student_id)
submissionUnique(taskId, studentId) ==
    ~ \E s \in submissions : s.taskId = taskId /\ s.studentId = studentId

\* submissions: task_id REFERENCES tasks(id)
submissionTaskExists(taskId) == \E t \in tasks : t.id = taskId

\* a groups table without the UNIQUE constraint on join_code
joinCodeUniqueDropped(joinCode) == TRUE

\* groups: join_code TEXT NOT NULL UNIQUE
joinCodeUnique(joinCode) == ~ \E g \in groups : g.joinCode = joinCode

\* group_members: group_id REFERENCES groups(id)
memberGroupExists(groupId) == \E g \in groups : g.id = groupId

\* a group_members table without the UNIQUE(group_id, user_id) constraint
memberUniqueDropped(groupId, userId) == TRUE

\* group_members: UNIQUE(group_id, user_id)
memberUnique(groupId, userId) ==
    ~ \E m \in groupMembers : m.groupId = groupId /\ m.userId = userId

\* submissions: score INTEGER
scoreColumnAccepts(score) == score % Scale = 0

\* ------------------------------------------------------------------ responses
\* res.status(status).json({ message })
R(status, message) == [status |-> status, message |-> message]

Init ==
    /\ users = {}
    /\ nextUserId = 1
    /\ groups = {}
    /\ groupMembers = {}
    /\ tasks = {}
    /\ submissions = {}
    /\ announcements = {}
    /\ nextGroupId = 1
    /\ nextTaskId = 1
    /\ nextSubmissionId = 1
    /\ nextAnnouncementId = 1
    /\ now = 1
    /\ inflight = EmptyBag

\* ------------------------------------------------------------------ groups
\* POST /api/groups: the response
CreateGroupResponse(u, name) ==
    IF role(u) # "teacher" THEN R(403, "Teacher access required")
    ELSE IF ~insertGroupSchema(name) THEN R(400, "Group name must be at least 2 characters")
    ELSE R(201, "created")

\* POST /api/groups; createGroup draws codes until one is found that no group uses
CreateGroup(u, name) ==
    /\ CreateGroupResponse(u, name).status = 201
    /\ \E joinCode \in Codes :
         /\ ~hasJoinCode(joinCode)
         /\ groups' = groups \cup
              {[id |-> nextGroupId, name |-> name, ownerId |-> u,
                joinCode |-> joinCode]}
    /\ nextGroupId' = nextGroupId + 1
    /\ UNCHANGED <<accounts, groupMembers, tasks, submissions, announcements, nextTaskId,
                   nextSubmissionId, nextAnnouncementId, now, inflight>>

\* POST /api/groups, up to the insert of createGroup: the handler's checks, then
\* createGroup's loop, which ends with a code that getGroupByJoinCode did not find
CreateGroupCheck(u, name) ==
    /\ CreateGroupResponse(u, name).status = 201
    /\ \E joinCode \in Codes :
         /\ ~hasJoinCode(joinCode)
         /\ inflight' = inflight (+) SetToBag(
              {[ownerId |-> u, name |-> name, joinCode |-> joinCode]})
    /\ UNCHANGED <<accounts, tables, counters>>

\* POST /api/groups, from the insert of createGroup on: the response
CreateGroupInsertResponse(req) ==
    IF ~joinCodeUnique(req.joinCode) THEN R(500, "storage error")
    ELSE R(201, "created")

\* POST /api/groups, from the insert of createGroup on
CreateGroupInsert(req) ==
    /\ BagIn(req, inflight)
    /\ inflight' = inflight (-) SetToBag({req})
    /\ IF CreateGroupInsertResponse(req).status = 201
       THEN /\ groups' = groups \cup
                  {[id |-> nextGroupId, name |-> req.name, ownerId |-> req.ownerId,
                    joinCode |-> req.joinCode]}
            /\ nextGroupId' = nextGroupId + 1
       ELSE UNCHANGED <<groups, nextGroupId>>
    /\ UNCHANGED <<accounts, groupMembers, tasks, submissions, announcements, nextTaskId,
                   nextSubmissionId, nextAnnouncementId, now>>

\* a DELETE FROM groups under tasks.group_id ON DELETE CASCADE
deleteGroupCascade(id) ==
    /\ groups' = {g \in groups : g.id # id}
    /\ groupMembers' = {m \in groupMembers : m.groupId # id}
    /\ announcements' = {a \in announcements : a.groupId # id}
    /\ tasks' = {t \in tasks : t.groupId # id}

\* DELETE FROM groups with the schema's referential actions:
\* group_members and announcements ON DELETE CASCADE, tasks.group_id ON DELETE SET NULL
deleteGroup(id) ==
    /\ groups' = {g \in groups : g.id # id}
    /\ groupMembers' = {m \in groupMembers : m.groupId # id}
    /\ announcements' = {a \in announcements : a.groupId # id}
    /\ tasks' = {IF t.groupId = id THEN [t EXCEPT !.groupId = NullId] ELSE t : t \in tasks}

\* DELETE /api/groups/:id: the response
DeleteGroupResponse(u, id) ==
    IF role(u) # "teacher" THEN R(403, "Teacher access required")
    ELSE IF ~hasGroup(id) THEN R(404, "Group not found")
    ELSE IF getGroupById(id).ownerId # u THEN R(403, "Not authorized to delete this group")
    ELSE R(200, "Group deleted")

\* DELETE /api/groups/:id
DeleteGroup(u, id) ==
    /\ DeleteGroupResponse(u, id).status = 200
    /\ deleteGroup(id)
    /\ UNCHANGED <<accounts, submissions, counters, inflight>>

\* DELETE FROM group_members WHERE group_id = .. AND user_id = ..
removeMemberFromGroup(groupId, userId) ==
    groupMembers' = {m \in groupMembers : ~(m.groupId = groupId /\ m.userId = userId)}

\* DELETE /api/groups/:id/members/:memberId: the response
RemoveMemberResponse(u, id, memberId) ==
    IF role(u) # "teacher" THEN R(403, "Teacher access required")
    ELSE IF ~hasGroup(id) THEN R(404, "Group not found")
    ELSE IF getGroupById(id).ownerId # u THEN R(403, "Not authorized")
    ELSE R(200, "Student removed")

\* DELETE /api/groups/:id/members/:memberId
RemoveMember(u, id, memberId) ==
    /\ RemoveMemberResponse(u, id, memberId).status = 200
    /\ removeMemberFromGroup(id, memberId)
    /\ UNCHANGED <<accounts, groups, tasks, submissions, announcements, counters, inflight>>

\* INSERT INTO group_members; the row id is a fresh UUID that no route reads: it
\* is kept as the number of the row among those of its (group, user) pair, so
\* that two rows for one pair stay two rows
addMemberToGroup(groupId, userId) ==
    groupMembers' = groupMembers \cup
        {[id |-> Cardinality(memberRows(groupId, userId)) + 1, groupId |-> groupId,
          userId |-> userId]}

\* the join handler without its isMemberOfGroup pre-check
JoinGroupResponseNoMemberCheck(u, joinCode) ==
    IF role(u) # "student" THEN R(403, "Student access required")
    ELSE IF ~joinGroupSchema(joinCode) THEN R(400, "Join code must be 6 characters")
    ELSE IF ~hasJoinCode(joinCode) THEN R(404, "Invalid join code")
    ELSE IF ~memberUnique(getGroupByJoinCode(joinCode).id, u) THEN R(500, "storage error")
    ELSE R(200, "Joined group successfully")

\* the join handler asking whether the student is a member of any group
JoinGroupResponseAnyGroup(u, joinCode) ==
    IF role(u) # "student" THEN R(403, "Student access required")
    ELSE IF ~joinGroupSchema(joinCode) THEN R(400, "Join code must be 6 characters")
    ELSE IF ~hasJoinCode(joinCode) THEN R(404, "Invalid join code")
    ELSE IF \E m \in groupMembers : m.userId = u
    THEN R(400, "Already a member of this group")
    ELSE R(200, "Joined group successfully")

\* POST /api/groups/join: the response
JoinGroupResponse(u, joinCode) ==
    IF role(u) # "student" THEN R(403, "Student access required")
    ELSE IF ~joinGroupSchema(joinCode) THEN R(400, "Join code must be 6 characters")
    ELSE IF ~hasJoinCode(joinCode) THEN R(404, "Invalid join code")
    ELSE IF isMemberOfGroup(getGroupByJoinCode(joinCode).id, u)
    THEN R(400, "Already a member of this group")
    ELSE IF ~memberUnique(getGroupByJoinCode(joinCode).id, u) THEN R(500, "storage error")
    ELSE R(200, "Joined group successfully")

\* POST /api/groups/join
JoinGroup(u, joinCode) ==
    /\ JoinGroupResponse(u, joinCode).status = 200
    /\ addMemberToGroup(getGroupByJoinCode(joinCode).id, u)
    /\ UNCHANGED <<accounts, groups, tasks, submissions, announcements, counters, inflight>>

\* POST /api/groups/join, up to the await of addMemberToGroup
JoinCheckResponse(u, joinCode) ==
    IF role(u) # "student" THEN R(403, "Student access required")
    ELSE IF ~joinGroupSchema(joinCode) THEN R(400, "Join code must be 6 characters")
    ELSE IF ~hasJoinCode(joinCode) THEN R(404, "Invalid join code")
    ELSE IF isMemberOfGroup(getGroupByJoinCode(joinCode).id, u)
    THEN R(400, "Already a member of this group")
    ELSE R(Pending, "")

JoinCheck(u, joinCode) ==
    /\ JoinCheckResponse(u, joinCode).status = Pending
    /\ inflight' = inflight (+) SetToBag(
         {[userId |-> u, groupId |-> getGroupByJoinCode(joinCode).id]})
    /\ UNCHANGED <<accounts, tables, counters>>

\* POST /api/groups/join, from addMemberToGroup on: the response
JoinInsertResponse(req) ==
    IF ~memberGroupExists(req.groupId) \/ ~memberUnique(req.groupId, req.userId)
    THEN R(500, "storage error")
    ELSE R(200, "Joined group successfully")

\* POST /api/groups/join, from addMemberToGroup on
JoinInsert(req) ==
    /\ BagIn(req, inflight)
    /\ inflight' = inflight (-) SetToBag({req})
    /\ IF JoinInsertResponse(req).status = 200
       THEN addMemberToGroup(req.groupId, req.userId)
       ELSE UNCHANGED groupMembers
    /\ UNCHANGED <<accounts, groups, tasks, submissions, announcements, counters>>

\* POST /api/groups/:id/leave: the response
LeaveGroupResponse(u, id) ==
    IF role(u) # "student" THEN R(403, "Student access required")
    ELSE IF ~hasGroup(id) THEN R(404, "Group not found")
    ELSE R(200, "Left group successfully")

\* a leave that also deletes the student's submissions
LeaveGroupCascade(u, id) ==
    /\ LeaveGroupResponse(u, id).status = 200
    /\ removeMemberFromGroup(id, u)
    /\ submissions' = {s \in submissions : s.studentId # u}
    /\ UNCHANGED <<accounts, groups, tasks, announcements, counters, inflight>>

\* POST /api/groups/:id/leave
LeaveGroup(u, id) ==
    /\ LeaveGroupResponse(u, id).status = 200
    /\ removeMemberFromGroup(id, u)
    /\ UNCHANGED <<accounts, groups, tasks, submissions, announcements, counters, inflight>>

\* ------------------------------------------------------------------ tasks
\* GET /api/groups/:id/tasks: the response
GetGroupTasksResponse(u, id) ==
    IF ~hasGroup(id) THEN R(404, "Group not found")
    ELSE IF ~(getGroupById(id).ownerId = u) /\ ~isMemberOfGroup(id, u)
    THEN R(403, "Access denied")
    ELSE R(200, "ok")

\* the status of a task for the submission rows found for it
submissionStatus(rows) ==
    IF rows = {} THEN "not_submitted"
    ELSE IF TheRow(rows).score # NullScore THEN "graded"
    ELSE "submitted"

\* submission?.score || null: no submission, a null score and a score of 0 all
\* give null
scoreOrNull(rows) ==
    IF rows = {} \/ TheRow(rows).score = 0 THEN NullScore ELSE TheRow(rows).score

\* GET /api/groups/:id/tasks: the body, one entry per task of the group with
\* the status and score of the caller's own submission
GetGroupTasksBody(u, id) ==
    IF GetGroupTasksResponse(u, id).status = 200
    THEN {[id |-> t.id, submissionStatus |-> submissionStatus(submissionsFor(t.id, u)),
           score |-> scoreOrNull(submissionsFor(t.id, u))] : t \in getTasksForGroup(id)}
    ELSE {}

\* GET /api/groups/:id/tasks
GetGroupTasks(u, id) ==
    /\ GetGroupTasksResponse(u, id).status = 200
    /\ UNCHANGED vars

\* INSERT INTO tasks
createTask(groupId, title, description, fileUrl) ==
    tasks' = tasks \cup
        {[id |-> nextTaskId, groupId |-> groupId, title |-> title,
          description |-> description, taskType |-> "text_file", fileUrl |-> fileUrl]}

\* the task-creation handler without its group.ownerId check
CreateTaskResponseAnyTeacher(u, groupId, title, description, file) ==
    IF role(u) # "teacher" THEN R(403, "Teacher access required")
    ELSE IF ~uploadAccepted(file) THEN R(400, "File upload failed")
    ELSE IF ~hasGroup(groupId) THEN R(404, "Group not found")
    ELSE IF ~insertTextTaskSchema(title, description) THEN R(400, "Validation error")
    ELSE R(201, "created")

\* the task-creation route without upload.single and uploadErrorHandler
CreateTaskResponseNoUpload(u, groupId, title, description, file) ==
    IF role(u) # "teacher" THEN R(403, "Teacher access required")
    ELSE IF ~hasGroup(groupId) THEN R(404, "Group not found")
    ELSE IF getGroupById(groupId).ownerId # u THEN R(403, "Not authorized")
    ELSE IF ~insertTextTaskSchema(title, description) THEN R(400, "Validation error")
    ELSE R(201, "created")

\* POST /api/groups/:groupId/tasks: the response
CreateTaskResponse(u, groupId, title, description, file) ==
    IF role(u) # "teacher" THEN R(403, "Teacher access required")
    ELSE IF ~uploadAccepted(file) THEN R(400, "File upload failed")
    ELSE IF ~hasGroup(groupId) THEN R(404, "Group not found")
    ELSE IF getGroupById(groupId).ownerId # u THEN R(403, "Not authorized")
    ELSE IF ~insertTextTaskSchema(title, description) THEN R(400, "Validation error")
    ELSE R(201, "created")

\* POST /api/groups/:groupId/tasks
CreateTask(u, groupId, title, description, file) ==
    /\ CreateTaskResponse(u, groupId, title, description, file).status = 201
    /\ createTask(groupId, title, description, fileUrlOf(file))
    /\ nextTaskId' = nextTaskId + 1
    /\ UNCHANGED <<accounts, groups, groupMembers, submissions, announcements, nextGroupId,
                   nextSubmissionId, nextAnnouncementId, now, inflight>>

\* the tasks of the groups the student is a member of; every task of the
\* model is due after every instant the model reaches, so the due_date filter
\* keeps them all
upcomingTasks(studentId) ==
    {t \in tasks : \E m \in groupMembers : m.userId = studentId /\ m.groupId = t.groupId}

\* task.submissions?.[0] over the embedded submissions(score), which are the
\* task's submissions of every student in no stated order: the statuses the
\* read can give
upcomingStatuses(taskId) ==
    IF getSubmissionsForTask(taskId) = {} THEN {"not_submitted"}
    ELSE {submissionStatus({s}) : s \in getSubmissionsForTask(taskId)}

\* GET /api/tasks/upcoming: the entries a response to the caller can carry
GetUpcomingTasksEntries(u) ==
    IF role(u) # "student" THEN {}
    ELSE UNION {{[id |-> t.id, submissionStatus |-> st] : st \in upcomingStatuses(t.id)} :
                  t \in upcomingTasks(u)}

\* GET /api/tasks/upcoming: answered 200 to every caller
GetUpcomingTasksResponse(u) == R(200, "ok")

\* GET /api/tasks/upcoming
GetUpcomingTasks(u) ==
    /\ GetUpcomingTasksResponse(u).status = 200
    /\ UNCHANGED vars

\* POST /api/groups/:groupId/tasks with a body of taskType "quiz" and
\* questions: the handler builds taskData from title, description and dueDate
\* with taskType "text_file" and reads neither field
CreateQuizTaskResponse(u, groupId, title, description, questions) ==
    CreateTaskResponse(u, groupId, title, description, "none")

\* POST /api/groups/:groupId/tasks with a quiz body
CreateQuizTask(u, groupId, title, description, questions) ==
    /\ CreateQuizTaskResponse(u, groupId, title, description, questions).status = 201
    /\ createTask(groupId, title, description, fileUrlOf("none"))
    /\ nextTaskId' = nextTaskId + 1
    /\ UNCHANGED <<accounts, groups, groupMembers, submissions, announcements, nextGroupId,
                   nextSubmissionId, nextAnnouncementId, now, inflight>>

\* GET /api/tasks/:id: the response
GetTaskResponse(u, id) ==
    IF ~hasTask(id) THEN R(404, "Task not found")
    ELSE R(200, "ok")

\* GET /api/tasks/:id
GetTask(u, id) ==
    /\ GetTaskResponse(u, id).status = 200
    /\ UNCHANGED vars

\* GET /api/tasks/:id/details: the response
GetTaskDetailsResponse(u, id) ==
    IF ~hasTask(id) THEN R(404, "Task not found")
    ELSE IF ~hasGroup(getTaskById(id).groupId) THEN R(404, "Group not found")
    ELSE R(200, "ok")

\* GET /api/tasks/:id/details
GetTaskDetails(u, id) ==
    /\ GetTaskDetailsResponse(u, id).status = 200
    /\ UNCHANGED vars

\* a deleteTask that does not count the task's submissions
deleteTaskAllowedAlways(id) == TRUE

\* deleteTask refuses a task that has submissions (it throws)
deleteTaskAllowed(id) == getSubmissionsForTask(id) = {}

\* DELETE FROM tasks; submissions.task_id ON DELETE CASCADE
deleteTask(id) ==
    /\ tasks' = {t \in tasks : t.id # id}
    /\ submissions' = {s \in submissions : s.taskId # id}

\* the delete handler testing the owner only when the task's group exists
DeleteTaskResponseOrphanAllowed(u, id) ==
    IF role(u) # "teacher" THEN R(403, "Teacher access required")
    ELSE IF ~hasTask(id) THEN R(404, "Task not found")
    ELSE IF hasGroup(getTaskById(id).groupId) /\ ~isOwner(getTaskById(id).groupId, u)
    THEN R(403, "Not authorized")
    ELSE IF ~deleteTaskAllowed(id) THEN R(500, "Cannot delete task with student submissions")
    ELSE R(200, "Task deleted")

\* DELETE /api/tasks/:id: the response
DeleteTaskResponse(u, id) ==
    IF role(u) # "teacher" THEN R(403, "Teacher access required")
    ELSE IF ~hasTask(id) THEN R(404, "Task not found")
    ELSE IF ~isOwner(getTaskById(id).groupId, u) THEN R(403, "Not authorized")
    ELSE IF ~deleteTaskAllowed(id) THEN R(500, "Cannot delete task with student submissions")
    ELSE R(200, "Task deleted")

\* DELETE /api/tasks/:id
DeleteTask(u, id) ==
    /\ DeleteTaskResponse(u, id).status = 200
    /\ deleteTask(id)
    /\ UNCHANGED <<accounts, groups, groupMembers, announcements, counters, inflight>>

\* ------------------------------------------------------------------ submissions
\* the submit handler without its "Already submitted" pre-check
SubmitCheckResponseNoExisting(u, taskId, textContent, file) ==
    IF role(u) # "student" THEN R(403, "Student access required")
    ELSE IF ~uploadAccepted(file) THEN R(400, "File upload failed")
    ELSE IF ~hasTask(taskId) THEN R(404, "Task not found")
    ELSE IF ~isMemberOfGroup(getTaskById(taskId).groupId, u)
    THEN R(403, "Not a member of this group")
    ELSE R(Pending, "")

\* the submit handler without its membership pre-check
SubmitCheckResponseNoMembership(u, taskId, textContent, file) ==
    IF role(u) # "student" THEN R(403, "Student access required")
    ELSE IF ~uploadAccepted(file) THEN R(400, "File upload failed")
    ELSE IF ~hasTask(taskId) THEN R(404, "Task not found")
    ELSE IF hasSubmissionForTask(taskId, u) THEN R(400, "Already submitted")
    ELSE R(Pending, "")

\* POST /api/tasks/:taskId/submit, up to the await of createSubmission:
\* requireStudent, the upload, then the task, membership and "existing
\* submission" pre-checks; Pending when the request goes on to createSubmission
SubmitCheckResponse(u, taskId, textContent, file) ==
    IF role(u) # "student" THEN R(403, "Student access required")
    ELSE IF ~uploadAccepted(file) THEN R(400, "File upload failed")
    ELSE IF ~hasTask(taskId) THEN R(404, "Task not found")
    ELSE IF ~isMemberOfGroup(getTaskById(taskId).groupId, u)
    THEN R(403, "Not a member of this group")
    ELSE IF hasSubmissionForTask(taskId, u) THEN R(400, "Already submitted")
    ELSE R(Pending, "")

SubmitCheck(u, taskId, textContent, file) ==
    /\ SubmitCheckResponse(u, taskId, textContent, file).status = Pending
    /\ inflight' = inflight (+) SetToBag(
         {[studentId |-> u, taskId |-> taskId, textContent |-> textContent,
           file |-> file]})
    /\ UNCHANGED <<accounts, tables, counters>>

\* what the store checks on INSERT INTO submissions:
\* task_id REFERENCES tasks(id) and UNIQUE(task_id, student_id)
insertSubmissionAccepted(taskId, studentId) ==
    /\ submissionTaskExists(taskId)
    /\ submissionUnique(taskId, studentId)

\* INSERT INTO submissions
createSubmission(taskId, textContent, studentId, fileUrl) ==
    submissions' = submissions \cup
        {[id |-> nextSubmissionId, taskId |-> taskId, studentId |-> studentId,
          textContent |-> textOrNull(textContent), fileUrl |-> fileUrl,
          submittedAt |-> now, score |-> NullScore]}

\* POST /api/tasks/:taskId/submit, from createSubmission on: the response
SubmitInsertResponse(req) ==
    IF ~insertSubmissionAccepted(req.taskId, req.studentId) THEN R(500, "storage error")
    ELSE R(201, "created")

\* POST /api/tasks/:taskId/submit, from createSubmission on
SubmitInsert(req) ==
    /\ BagIn(req, inflight)
    /\ inflight' = inflight (-) SetToBag({req})
    /\ IF SubmitInsertResponse(req).status = 201
       THEN /\ createSubmission(req.taskId, req.textContent, req.studentId,
                                fileUrlOf(req.file))
            /\ nextSubmissionId' = nextSubmissionId + 1
            /\ now' = now + 1
       ELSE UNCHANGED <<submissions, nextSubmissionId, now>>
    /\ UNCHANGED <<accounts, groups, groupMembers, tasks, announcements, nextGroupId, nextTaskId,
                   nextAnnouncementId>>

\* an UPDATE that also stamps the row with the time of grading
updateSubmissionScoreTouch(id, score) ==
    submissions' = {IF s.id = id THEN [s EXCEPT !.score = score, !.submittedAt = now]
                    ELSE s : s \in submissions}

\* UPDATE submissions SET score = ..
updateSubmissionScore(id, score) ==
    submissions' = {IF s.id = id THEN [s EXCEPT !.score = score] ELSE s : s \in submissions}

\* the grade handler without its group.ownerId check
GradeResponseAnyTeacher(u, id, score) ==
    IF role(u) # "teacher" THEN R(403, "Teacher access required")
    ELSE IF ~updateScoreSchema(score) THEN R(400, "Validation error")
    ELSE IF ~hasSubmission(id) THEN R(404, "Submission not found")
    ELSE IF ~hasTask(getSubmissionById(id).taskId) THEN R(404, "Task not found")
    ELSE IF ~scoreColumnAccepts(score) THEN R(500, "storage error")
    ELSE R(200, "ok")

\* PATCH /api/submissions/:id/score: the response
GradeResponse(u, id, score) ==
    IF role(u) # "teacher" THEN R(403, "Teacher access required")
    ELSE IF ~updateScoreSchema(score) THEN R(400, "Validation error")
    ELSE IF ~hasSubmission(id) THEN R(404, "Submission not found")
    ELSE IF ~hasTask(getSubmissionById(id).taskId) THEN R(404, "Task not found")
    ELSE IF ~isOwner(getTaskById(getSubmissionById(id).taskId).groupId, u)
    THEN R(403, "Not authorized")
    ELSE IF ~scoreColumnAccepts(score) THEN R(500, "storage error")
    ELSE R(200, "ok")

\* PATCH /api/submissions/:id/score
Grade(u, id, score) ==
    /\ GradeResponse(u, id, score).status = 200
    /\ updateSubmissionScore(id, score)
    /\ UNCHANGED <<accounts, groups, groupMembers, tasks, announcements, counters, inflight>>

\* GET /api/tasks/:taskId/my-submission: the response (no check but the token)
GetMySubmissionResponse(u, taskId) == R(200, "ok")

\* GET /api/tasks/:taskId/my-submission: the body, the caller's submission row
\* for the task, or the empty set for null
GetMySubmissionBody(u, taskId) ==
    IF hasSubmissionForTask(taskId, u) THEN {getSubmissionForTask(taskId, u)} ELSE {}

\* GET /api/tasks/:taskId/my-submission
GetMySubmission(u, taskId) ==
    /\ GetMySubmissionResponse(u, taskId).status = 200
    /\ UNCHANGED vars

\* GET /api/tasks/:taskId/submissions: the response
GetTaskSubmissionsResponse(u, taskId) ==
    IF role(u) # "teacher" THEN R(403, "Teacher access required")
    ELSE IF ~hasTask(taskId) THEN R(404, "Task not found")
    ELSE IF ~isOwner(getTaskById(taskId).groupId, u) THEN R(403, "Not authorized")
    ELSE R(200, "ok")

\* GET /api/tasks/:taskId/submissions: the body, the submission rows of the
\* task (each row's joined users(name, email) columns are left out)
GetTaskSubmissionsBody(u, taskId) ==
    IF GetTaskSubmissionsResponse(u, taskId).status = 200
    THEN getSubmissionsForTask(taskId)
    ELSE {}

\* GET /api/tasks/:taskId/submissions
GetTaskSubmissions(u, taskId) ==
    /\ GetTaskSubmissionsResponse(u, taskId).status = 200
    /\ UNCHANGED vars

\* ------------------------------------------------------------------ analytics
\* a Score cell that tests the score for truthiness, not for null
csvScoreFalsy(score) ==
    IF score # NullScore /\ score # 0 THEN ToString(score \div Scale) ELSE "Not Graded"

\* sub.score !== null ? sub.score : "Not Graded", as the template renders it
csvScore(score) ==
    IF score # NullScore THEN ToString(score \div Scale) ELSE "Not Graded"

\* GET /api/analytics/export-csv?groupId=..: the response
ExportCsvResponse(u, groupId) ==
    IF role(u) # "teacher" THEN R(403, "Teacher access required")
    ELSE IF groupId = NullId THEN R(400, "Group ID is required")
    ELSE IF ~hasGroup(groupId) \/ getGroupById(groupId).ownerId # u
    THEN R(403, "Not authorized")
    ELSE R(200, "text/csv")

\* GET /api/analytics/export-csv: the data rows of the body under the header
\* line, one per element of the forEach (named by the submission it renders),
\* with the Submitted At and Score cells
ExportCsvRows(u, groupId) ==
    IF ExportCsvResponse(u, groupId).status = 200
    THEN {[submission |-> s.id, submittedAt |-> s.submittedAt, score |-> csvScore(s.score)] :
            s \in getSubmissionsForGroup(groupId)}
    ELSE {}

\* GET /api/analytics/export-csv?groupId=..
ExportCsv(u, groupId) ==
    /\ ExportCsvResponse(u, groupId).status = 200
    /\ UNCHANGED vars

\* ------------------------------------------------------------------ announcements
\* INSERT INTO announcements
createAnnouncement(groupId, message, teacherId) ==
    announcements' = announcements \cup
        {[id |-> nextAnnouncementId, groupId |-> groupId, teacherId |-> teacherId,
          message |-> message]}

\* POST /api/announcements: the response
CreateAnnouncementResponse(u, groupId, message) ==
    IF role(u) # "teacher" THEN R(403, "Teacher access required")
    ELSE IF ~insertAnnouncementSchema(message) THEN R(400, "Message is required")
    ELSE IF ~isOwner(groupId, u) THEN R(403, "Not authorized")
    ELSE R(201, "created")

\* POST /api/announcements
CreateAnnouncement(u, groupId, message) ==
    /\ CreateAnnouncementResponse(u, groupId, message).status = 201
    /\ createAnnouncement(groupId, message, u)
    /\ nextAnnouncementId' = nextAnnouncementId + 1
    /\ UNCHANGED <<accounts, groups, groupMembers, tasks, submissions, nextGroupId, nextTaskId,
                   nextSubmissionId, now, inflight>>

\* GET /api/announcements/:groupId: the response
GetAnnouncementsResponse(u, groupId) ==
    IF ~hasGroup(groupId) THEN R(404, "Group not found")
    ELSE R(200, "ok")

\* GET /api/announcements/:groupId
GetAnnouncements(u, groupId) ==
    /\ GetAnnouncementsResponse(u, groupId).status = 200
    /\ UNCHANGED vars

\* ------------------------------------------------------------------ accounts
\* z.string().email(): a local part, "@" and a domain
isEmail(email) == email \in {"ann@x.io", "bob@x.io"}

insertUserSchema(body) ==
    /\ MinLen(body.name, 2)
    /\ isEmail(body.email)
    /\ MinLen(body.password, 6)
    /\ body.role \in {"teacher", "student"}

loginSchema(email, password) == isEmail(email) /\ MinLen(password, 1)

\* bcrypt.hash(password, 10) and bcrypt.compare(password, hash)
bcryptHash(password) == "$2a$10$" \o password

bcryptCompare(password, passwordHash) == passwordHash = bcryptHash(password)

userRows(email) == {u \in users : u.email = email}
hasUserByEmail(email) == Single(userRows(email))
getUserByEmail(email) == TheRow(userRows(email))

\* users: email TEXT UNIQUE
emailUnique(email) == ~ \E u \in users : u.email = email

\* jwt.sign({ id, email, role, name }, JWT_SECRET, { expiresIn: "7d" })
jwtSign(user) ==
    [id |-> user.id, email |-> user.email, role |-> user.role, name |-> user.name]

RegisterBodies ==
    [name : NameInputs, email : EmailInputs, password : PasswordInputs, role : RoleInputs]

\* the register handler without its getUserByEmail pre-check
RegisterCheckResponseNoExisting(body) ==
    IF ~insertUserSchema(body) THEN R(400, "Validation error")
    ELSE R(Pending, "")

\* POST /api/auth/register, up to the await of createUser
RegisterCheckResponse(body) ==
    IF ~insertUserSchema(body) THEN R(400, "Validation error")
    ELSE IF hasUserByEmail(body.email) THEN R(400, "Email already registered")
    ELSE R(Pending, "")

RegisterCheck(body) ==
    /\ RegisterCheckResponse(body).status = Pending
    /\ inflight' = inflight (+) SetToBag({body})
    /\ UNCHANGED <<accounts, tables, counters>>

\* createUser storing the password as given, without bcrypt.hash
createUserPlainPassword(body) ==
    users' = users \cup
        {[id |-> nextUserId, name |-> body.name, email |-> body.email,
          passwordHash |-> body.password, role |-> body.role]}

\* INSERT INTO users
createUser(body) ==
    users' = users \cup
        {[id |-> nextUserId, name |-> body.name, email |-> body.email,
          passwordHash |-> bcryptHash(body.password), role |-> body.role]}

\* POST /api/auth/register, from createUser on: the response
RegisterInsertResponse(body) ==
    IF ~emailUnique(body.email) THEN R(500, "storage error")
    ELSE R(201, "created")

\* POST /api/auth/register, from createUser on
RegisterInsert(body) ==
    /\ BagIn(body, inflight)
    /\ inflight' = inflight (-) SetToBag({body})
    /\ IF RegisterInsertResponse(body).status = 201
       THEN /\ createUser(body)
            /\ nextUserId' = nextUserId + 1
       ELSE UNCHANGED accounts
    /\ UNCHANGED <<tables, counters>>

\* POST /api/auth/login: the response
LoginResponse(email, password) ==
    IF ~loginSchema(email, password) THEN R(400, "Validation error")
    ELSE IF ~hasUserByEmail(email) THEN R(401, "Invalid email or password")
    ELSE IF ~bcryptCompare(password, getUserByEmail(email).passwordHash)
    THEN R(401, "Invalid email or password")
    ELSE R(200, "ok")

\* POST /api/auth/login: the token of a successful response
LoginToken(email, password) == jwtSign(getUserByEmail(email))

\* POST /api/auth/login
Login(email, password) ==
    /\ LoginResponse(email, password).status = 200
    /\ UNCHANGED vars

\* the Authorization header a registered user's client sends: none, a string
\* that jwt.verify refuses, or the token the server signed for the user, expired
\* or not
TokenKinds == {"missing", "malformed", "expired", "valid"}

Tokens == {[kind |-> kind, payload |-> jwtSign(u)] : kind \in TokenKinds, u \in users}

\* authenticateToken: Pending when the request goes on to the next handler
authenticateToken(token) ==
    IF token.kind = "missing" THEN R(401, "Authentication required")
    ELSE IF token.kind \in {"malformed", "expired"}
    THEN R(403, "Invalid or expired token")
    ELSE R(Pending, "")

\* GET /api/unread-counts: the response
GetUnreadCountsResponse(token) ==
    IF authenticateToken(token).status # Pending THEN authenticateToken(token)
    ELSE R(200, "ok")

\* GET /api/unread-counts
GetUnreadCounts(token) ==
    /\ GetUnreadCountsResponse(token).status = 200
    /\ UNCHANGED vars

\* ------------------------------------------------------------------ specification
\* POST /api/tasks/:taskId/submit handled without another request in between:
\* the response
SubmitResponse(u, taskId, textContent, file) ==
    IF SubmitCheckResponse(u, taskId, textContent, file).status # Pending
    THEN SubmitCheckResponse(u, taskId, textContent, file)
    ELSE SubmitInsertResponse([studentId |-> u, taskId |-> taskId])

\* POST /api/tasks/:taskId/submit handled without another request in between
Submit(u, taskId, textContent, file) ==
    /\ SubmitResponse(u, taskId, textContent, file).status = 201
    /\ createSubmission(taskId, textContent, u, fileUrlOf(file))
    /\ nextSubmissionId' = nextSubmissionId + 1
    /\ now' = now + 1
    /\ UNCHANGED <<accounts, groups, groupMembers, tasks, announcements, nextGroupId, nextTaskId,
                   nextAnnouncementId, inflight>>

\* the routes that neither read nor write submissions in flight, with the
\* bounds on what is ever created
Routes(maxGroups, maxTasks) ==
    \/ \E u \in Users, name \in GroupNameInputs :
          nextGroupId <= maxGroups /\ CreateGroup(u, name)
    \/ \E u \in Users, id \in GroupIds : DeleteGroup(u, id)
    \/ \E u \in Users, id \in GroupIds, memberId \in Students : RemoveMember(u, id, memberId)
    \/ \E u \in Users, joinCode \in JoinCodeInputs : JoinGroup(u, joinCode)
    \/ \E u \in Users, id \in GroupIds : LeaveGroup(u, id)
    \/ \E u \in Users, id \in GroupIds : GetGroupTasks(u, id)
    \/ \E u \in Users, groupId \in GroupIds, title \in TitleInputs,
          description \in DescriptionInputs, file \in FileInputs :
            nextTaskId <= maxTasks /\ CreateTask(u, groupId, title, description, file)
    \/ \E u \in Users, id \in TaskIds : GetTask(u, id)
    \/ \E u \in Users, id \in TaskIds : GetTaskDetails(u, id)
    \/ \E u \in Users, id \in TaskIds : DeleteTask(u, id)
    \/ \E u \in Users, id \in SubmissionIds, score \in ScoreInputs : Grade(u, id, score)

Next ==
    \/ Routes(MaxGroups, MaxTasks)
    \/ \E u \in Users, taskId \in TaskIds, textContent \in TextInputs, file \in FileInputs :
          nextSubmissionId <= MaxSubmissions /\ Submit(u, taskId, textContent, file)
    \/ \E u \in Users, groupId \in GroupIds, message \in MessageInputs :
          nextAnnouncementId <= MaxAnnouncements /\ CreateAnnouncement(u, groupId, message)
    \/ \E u \in Users, groupId \in GroupIds : GetAnnouncements(u, groupId)
    \/ \E u \in Users, taskId \in TaskIds : GetMySubmission(u, taskId)
    \/ \E u \in Users, taskId \in TaskIds : GetTaskSubmissions(u, taskId)
    \/ \E u \in Users, groupId \in GroupIds \cup {NullId} : ExportCsv(u, groupId)
    \/ \E u \in Users : GetUpcomingTasks(u)

Spec == Init /\ [][Next]_vars

Requests ==
    [studentId : Students, taskId : TaskIds, textContent : TextInputs,
     file : FileInputs \ {"bad"}]

NextRace ==
    \/ Routes(RaceMaxGroups, RaceMaxTasks)
    \/ \E u \in Users, taskId \in TaskIds, textContent \in TextInputs, file \in FileInputs :
          BagCardinality(inflight) < RaceMaxInflight
            /\ SubmitCheck(u, taskId, textContent, file)
    \/ \E req \in Requests :
          (SubmitInsertResponse(req).status = 201 => nextSubmissionId <= RaceMaxSubmissions)
            /\ SubmitInsert(req)

SpecRace == Init /\ [][NextRace]_vars

NextAuth ==
    \/ \E body \in RegisterBodies :
          BagCardinality(inflight) < AuthMaxInflight /\ RegisterCheck(body)
    \/ \E body \in RegisterBodies :
          (RegisterInsertResponse(body).status = 201 => nextUserId <= AuthMaxUsers)
            /\ RegisterInsert(body)
    \/ \E email \in EmailInputs, password \in PasswordInputs : Login(email, password)
    \/ \E token \in Tokens : GetUnreadCounts(token)

SpecAuth == Init /\ [][NextAuth]_vars

CreateGroupRequests == [ownerId : Teachers, name : GroupNameInputs, joinCode : Codes]

JoinRequests == [userId : Students, groupId : GroupIds]

NextGroupRace ==
    \/ \E u \in Users, name \in GroupNameInputs :
          BagCardinality(inflight) < GroupRaceMaxInflight /\ CreateGroupCheck(u, name)
    \/ \E req \in CreateGroupRequests :
          (CreateGroupInsertResponse(req).status = 201 => nextGroupId <= GroupRaceMaxGroups)
            /\ CreateGroupInsert(req)
    \/ \E u \in Users, joinCode \in JoinCodeInputs :
          BagCardinality(inflight) < GroupRaceMaxInflight /\ JoinCheck(u, joinCode)
    \/ \E req \in JoinRequests : JoinInsert(req)
    \/ \E u \in Users, id \in GroupIds : DeleteGroup(u, id)
    \/ \E u \in Users, id \in GroupIds, memberId \in Students : RemoveMember(u, id, memberId)
    \/ \E u \in Users, id \in GroupIds : LeaveGroup(u, id)

SpecGroupRace == Init /\ [][NextGroupRace]_vars

\* group and task routes with quiz bodies for task creation
NextQuiz ==
    \/ \E u \in Users, name \in GroupNameInputs :
          nextGroupId <= QuizMaxGroups /\ CreateGroup(u, name)
    \/ \E u \in Users, id \in GroupIds : DeleteGroup(u, id)
    \/ \E u \in Users, groupId \in GroupIds, title \in TitleInputs,
          description \in DescriptionInputs, questions \in QuestionsInputs :
            nextTaskId <= QuizMaxTasks
              /\ CreateQuizTask(u, groupId, title, description, questions)
    \/ \E u \in Users, id \in 1..QuizMaxTasks : DeleteTask(u, id)

SpecQuiz == Init /\ [][NextQuiz]_vars

\* ------------------------------------------------------------------ properties
\* request bodies whose upload multer accepts
UploadedFiles == {file \in FileInputs : uploadAccepted(file)}

samePair(s1, s2) == s1.taskId = s2.taskId /\ s1.studentId = s2.studentId

\* C1: in every reachable state, also when two submit requests of one student
\* for one task have both passed the "existing submission" pre-check before
\* either inserted, the store holds at most one submission per
\* (taskId, studentId) pair.
SubmissionPairUnique ==
    \A s1 \in submissions, s2 \in submissions : samePair(s1, s2) => s1 = s2

\* C1: a submission is stored while a second request of the same student for
\* the same task, which passed its pre-check too, still awaits its insert
SecondSubmitInFlight ==
    \E req \in BagToSet(inflight) : ~submissionUnique(req.taskId, req.studentId)

\* C2 as stated: a student who already has a submission for task K and submits
\* again (with an upload that is accepted) is answered 400 "Already submitted".
ResubmitAnswered400 ==
    \A u \in Students, taskId \in TaskIds, textContent \in TextInputs,
       file \in UploadedFiles :
        ~submissionUnique(taskId, u) =>
            SubmitCheckResponse(u, taskId, textContent, file) = R(400, "Already submitted")

\* C2 as amended: a student who already has a submission for task K and submits
\* again is answered 400 "Already submitted" while still a member of K's group
\* and 403 "Not a member of this group" otherwise; no step creates a second
\* submission for the pair, and a step that inserts a submission leaves every
\* existing submission (text, file, timestamp, score) as it was.
ResubmitRejected ==
    /\ [](\A u \in Students, taskId \in TaskIds, textContent \in TextInputs,
             file \in UploadedFiles :
              ~submissionUnique(taskId, u) =>
                  /\ hasTask(taskId)
                  /\ SubmitCheckResponse(u, taskId, textContent, file) =
                        IF isMemberOfGroup(getTaskById(taskId).groupId, u)
                        THEN R(400, "Already submitted")
                        ELSE R(403, "Not a member of this group"))
    /\ [][\A s \in submissions :
             /\ \A s2 \in submissions' : samePair(s, s2) => s2.id = s.id
             /\ \A req \in Requests : SubmitInsert(req) => s \in submissions']_vars

\* C2: a student who has a submission and is still a member submits again
ResubmitByMember ==
    \E s \in submissions, textContent \in TextInputs, file \in UploadedFiles :
        SubmitCheckResponse(s.studentId, s.taskId, textContent, file) =
            R(400, "Already submitted")

\* C3: a submission's score changes only in a step of PATCH
\* /api/submissions/:id/score whose caller owns the group of the submission's
\* task; the request (with a score the schema accepts) from any other teacher is
\* answered 403, and with any score from a student is answered 403.
ScoreSetOnlyByOwner ==
    /\ [](\A s \in submissions :
              /\ \A u \in Students, score \in ScoreInputs :
                    GradeResponse(u, s.id, score).status = 403
              /\ \A u \in Teachers, score \in ScoreInputs :
                    (updateScoreSchema(score) /\ hasTask(s.taskId)
                        /\ ~isOwner(getTaskById(s.taskId).groupId, u))
                    => GradeResponse(u, s.id, score).status = 403)
    /\ [][\A s \in submissions, s2 \in submissions' :
             (s2.id = s.id /\ s2.score # s.score) =>
                 \E u \in Teachers, score \in ScoreInputs :
                    /\ isOwner(getTaskById(s.taskId).groupId, u)
                    /\ Grade(u, s.id, score)]_vars

\* C3: a graded submission, and a teacher who does not own its group and is
\* answered 403
GradedAndOtherTeacherRefused ==
    \E s \in submissions, u \in Teachers :
        /\ s.score # NullScore
        /\ ~isOwner(getTaskById(s.taskId).groupId, u)
        /\ GradeResponse(u, s.id, 0).status = 403

\* C4: the tasks and the announcements of a group G change only in steps of
\* requests whose caller is G's owner; task creation, task deletion and
\* announcement creation in G by any other user are answered 403 (for another
\* teacher: with the upload and body the owner's request would succeed with).
OwnerOnlyTasksAndAnnouncements ==
    /\ [](\A g \in groups : \A u \in Users \ {g.ownerId} :
              /\ \A title \in TitleInputs, description \in DescriptionInputs,
                    file \in FileInputs :
                    (role(u) = "student"
                        \/ CreateTaskResponse(g.ownerId, g.id, title, description,
                                              file).status = 201)
                    => CreateTaskResponse(u, g.id, title, description, file).status = 403
              /\ \A t \in getTasksForGroup(g.id) : DeleteTaskResponse(u, t.id).status = 403
              /\ \A message \in MessageInputs :
                    (role(u) = "student"
                        \/ CreateAnnouncementResponse(g.ownerId, g.id, message).status = 201)
                    => CreateAnnouncementResponse(u, g.id, message).status = 403)
    /\ [][\A g \in groups :
             ({t \in tasks' : t.groupId = g.id} # getTasksForGroup(g.id)
                 \/ {a \in announcements' : a.groupId = g.id}
                        # getAnnouncementsForGroup(g.id))
             => \/ \E title \in TitleInputs, description \in DescriptionInputs,
                      file \in FileInputs :
                        CreateTask(g.ownerId, g.id, title, description, file)
                \/ \E t \in getTasksForGroup(g.id) : DeleteTask(g.ownerId, t.id)
                \/ \E message \in MessageInputs :
                        CreateAnnouncement(g.ownerId, g.id, message)
                \/ DeleteGroup(g.ownerId, g.id)]_vars

\* C4: a group with a task and an announcement that another teacher is refused
\* to add to
GroupWithTaskAndAnnouncement ==
    \E g \in groups : \E u \in Teachers \ {g.ownerId} :
        /\ getTasksForGroup(g.id) # {}
        /\ getAnnouncementsForGroup(g.id) # {}
        /\ CreateTaskResponse(u, g.id, "HW1", "Solve it", "none").status = 403
        /\ CreateAnnouncementResponse(u, g.id, "Exam on Friday").status = 403

\* C5: for every task K of a group G, a student who is not a member of G is
\* answered 403 on GET /api/groups/G/tasks, GET /api/tasks/K and
\* GET /api/tasks/K/details.
NonMemberStudentReadsRefused ==
    \A t \in tasks, u \in Students :
        (hasGroup(t.groupId) /\ ~isMemberOfGroup(t.groupId, u)) =>
            /\ GetGroupTasksResponse(u, t.groupId).status = 403
            /\ GetTaskResponse(u, t.id).status = 403
            /\ GetTaskDetailsResponse(u, t.id).status = 403

\* C6: GET /api/announcements/:groupId answers a caller who neither owns G nor
\* is a member of G with 403.
AnnouncementsReadByOwnerOrMember ==
    \A g \in groups, u \in Users :
        (getAnnouncementsForGroup(g.id) # {} /\ g.ownerId # u
            /\ ~isMemberOfGroup(g.id, u))
        => GetAnnouncementsResponse(u, g.id).status = 403

\* C7: a submit request for task K creates a submission only if the student
\* is a member of K's group when it is handled; a student who is not (has left,
\* was removed, never joined) is answered 403 and nothing is created, and one
\* who is a member (again) and has not submitted is accepted.
SubmitRequiresMembership ==
    /\ [](\A u \in Students, t \in tasks, textContent \in TextInputs,
             file \in UploadedFiles :
              /\ ~isMemberOfGroup(t.groupId, u) =>
                    SubmitResponse(u, t.id, textContent, file) =
                        R(403, "Not a member of this group")
              /\ (isMemberOfGroup(t.groupId, u) /\ submissionUnique(t.id, u)) =>
                    SubmitResponse(u, t.id, textContent, file).status = 201)
    /\ [][\A s2 \in submissions' :
             (\A s \in submissions : s.id # s2.id) =>
                 /\ hasTask(s2.taskId)
                 /\ isMemberOfGroup(getTaskById(s2.taskId).groupId, s2.studentId)]_vars

\* C7: a student who submitted to a task as a member has since left the group
\* or been removed from it, the group still being there
SubmitterNoLongerMember ==
    \E s \in submissions :
        /\ hasGroup(getTaskById(s.taskId).groupId)
        /\ ~isMemberOfGroup(getTaskById(s.taskId).groupId, s.studentId)

scoreInRange(score) == score = NullScore \/ (score >= 0 * Scale /\ score <= 100 * Scale)

\* C8: every stored score is null or within [0,100]; a teacher's grade request
\* with score 150 or -5 is answered 400; the owner's grade request with score 0
\* or 100 is accepted, and an accepted score is the one stored.
ScoreNullOrInRange ==
    /\ [](/\ \A s \in submissions : scoreInRange(s.score)
          /\ \A u \in Teachers, id \in SubmissionIds :
                /\ GradeResponse(u, id, 150 * Scale).status = 400
                /\ GradeResponse(u, id, -5 * Scale).status = 400
          /\ \A s \in submissions, u \in Teachers :
                isOwner(getTaskById(s.taskId).groupId, u) =>
                    /\ GradeResponse(u, s.id, 0).status = 200
                    /\ GradeResponse(u, s.id, 100 * Scale).status = 200)
    /\ [][submissions' # submissions =>
             \A u \in Teachers, id \in SubmissionIds, score \in ScoreInputs :
                Grade(u, id, score) =>
                    \E s2 \in submissions' : s2.id = id /\ s2.score = score]_vars

\* C8: a submission graded with the upper boundary, 100
GradedWithBoundary ==
    \E s \in submissions : s.score = 100 * Scale

\* C9: a grade request with the non-integer score 50.5, sent by the owner for a
\* stored submission, is answered 400, and every stored non-null score is an
\* integer.
NonIntegerScoreAnswered400 ==
    /\ \A s \in submissions, u \in Teachers :
          isOwner(getTaskById(s.taskId).groupId, u) =>
              GradeResponse(u, s.id, 505).status = 400
    /\ \A s \in submissions : s.score # NullScore => s.score % Scale = 0

\* C10: no submission is created with neither text content nor a file: such a
\* submit is rejected.
EmptySubmissionNeverStored ==
    \A s \in submissions : ~(s.textContent = NullText /\ s.fileUrl = NullText)

\* C11: on an authenticated endpoint a request whose bearer token is missing,
\* invalid or expired is answered 401, and 403 is answered only to a request
\* whose token is valid.
BadTokenAnswered401 ==
    \A token \in Tokens :
        /\ token.kind # "valid" => GetUnreadCountsResponse(token).status = 401
        /\ GetUnreadCountsResponse(token).status = 403 => token.kind = "valid"

\* C16: a registration with an email that is already registered is answered
\* 400 "Email already registered"; a user is only ever created with an email no
\* user had, so every email belongs to at most one user.
DuplicateEmailRejected ==
    /\ [](/\ \A body \in RegisterBodies :
                (insertUserSchema(body) /\ ~emailUnique(body.email)) =>
                    RegisterCheckResponse(body) = R(400, "Email already registered")
          /\ \A u1 \in users, u2 \in users : u1.email = u2.email => u1 = u2)
    /\ [][\A u2 \in users' : u2 \notin users => emailUnique(u2.email)]_vars

\* C16: a registered email is registered again
SecondRegistrationSameEmail ==
    \E u \in users, body \in RegisterBodies :
        /\ body.email = u.email
        /\ RegisterCheckResponse(body) = R(400, "Email already registered")

\* C17: a registration that is accepted makes the login with its email and
\* password succeed with a token whose role is the registered role; users are
\* never changed or removed, so this stays so for every later login.
RegisteredCanLogin ==
    /\ [][\A body \in RegisterBodies :
             (RegisterInsert(body) /\ users' # users) =>
                 /\ (LoginResponse(body.email, body.password).status = 200)'
                 /\ (LoginToken(body.email, body.password).role = body.role)']_vars
    /\ [](\A u \in users, password \in PasswordInputs :
              bcryptCompare(password, u.passwordHash) =>
                  /\ LoginResponse(u.email, password).status = 200
                  /\ LoginToken(u.email, password).role = u.role)
    /\ [][users \subseteq users']_vars

\* C17: both roles are registered and can log in
TeacherAndStudentRegistered ==
    \E u1 \in users, u2 \in users :
        /\ u1.role = "teacher" /\ u2.role = "student"
        /\ \E password \in PasswordInputs : LoginResponse(u1.email, password).status = 200
        /\ \E password \in PasswordInputs : LoginResponse(u2.email, password).status = 200

\* C12: when two concurrent requests both passed the existence pre-check and
\* the unique constraint rejects the insert of the second (same student joining
\* the same group, same student submitting to the same task, same email
\* registered), the second request is answered 400 or 409, not 500.
ConstraintViolationAnsweredConflict ==
    \A req \in BagToSet(inflight) :
        /\ ("groupId" \in DOMAIN req /\ ~memberUnique(req.groupId, req.userId)) =>
              JoinInsertResponse(req).status \in {400, 409}
        /\ ("taskId" \in DOMAIN req /\ ~submissionUnique(req.taskId, req.studentId)) =>
              SubmitInsertResponse(req).status \in {400, 409}
        /\ ("email" \in DOMAIN req /\ ~emailUnique(req.email)) =>
              RegisterInsertResponse(req).status \in {400, 409}

JoinRejections ==
    /\ [](/\ \A u \in Students, joinCode \in Codes :
                /\ ~hasJoinCode(joinCode) =>
                      JoinGroupResponse(u, joinCode).status = 404
                /\ (hasJoinCode(joinCode)
                      /\ isMemberOfGroup(getGroupByJoinCode(joinCode).id, u)) =>
                      JoinGroupResponse(u, joinCode) =
                          R(400, "Already a member of this group")
          /\ \A g \in groups, u \in Students : Cardinality(memberRows(g.id, u)) <= 1)
    /\ [][\A m2 \in groupMembers' :
             m2 \notin groupMembers =>
                 /\ memberRows(m2.groupId, m2.userId) = {}
                 /\ \E joinCode \in Codes :
                       /\ hasJoinCode(joinCode)
                       /\ getGroupByJoinCode(joinCode).id = m2.groupId]_vars

\* C14: a student is a member of one group while the other code belongs to no
\* group
MemberAndUnusedCode ==
    \E u \in Students, joinCode \in Codes, unused \in Codes :
        /\ hasJoinCode(joinCode)
        /\ isMemberOfGroup(getGroupByJoinCode(joinCode).id, u)
        /\ JoinGroupResponse(u, unused).status = 404

\* C15: a student who is not a member of a group, whether never joined or
\* joined and left, joins it with its code successfully and is a member after;
\* no step changes the join code of a group, and a leave changes no group.
RejoinAfterLeave ==
    /\ [](\A g \in groups, u \in Students :
              ~isMemberOfGroup(g.id, u) => JoinGroupResponse(u, g.joinCode).status = 200)
    /\ [][/\ \A g \in groups, g2 \in groups' : g2.id = g.id => g2.joinCode = g.joinCode
          /\ groupMembers' # groupMembers =>
              /\ \A u \in Students, id \in GroupIds :
                LeaveGroup(u, id) =>
                    /\ groups' = groups
                    /\ ~isMemberOfGroup(id, u)'
                    /\ (JoinGroupResponse(u, getGroupById(id).joinCode).status = 200)'
              /\ \A u \in Students, joinCode \in Codes :
                JoinGroup(u, joinCode) =>
                    isMemberOfGroup(getGroupByJoinCode(joinCode).id, u)']_vars

\* C15: a student who submitted to a task of a group as a member is no longer
\* a member and can join again with the group's code
LeftAndCanRejoin ==
    \E s \in submissions, g \in groups :
        /\ g.id = getTaskById(s.taskId).groupId
        /\ ~isMemberOfGroup(g.id, s.studentId)
        /\ JoinGroupResponse(s.studentId, g.joinCode).status = 200

\* C19: a task-creation request of a teacher and a submit request of a student
\* whose uploaded file is oversized or of a disallowed type are answered 400,
\* whatever the rest of the request, and no step creates a task or a submission
\* from such a request (requireTeacher and requireStudent run before the
\* upload: the file of a request of the wrong role is never read).
BadUploadAnswered400 ==
    /\ [](/\ \A u \in Teachers, groupId \in GroupIds, title \in TitleInputs,
               description \in DescriptionInputs, file \in FileInputs \ UploadedFiles :
                CreateTaskResponse(u, groupId, title, description, file).status = 400
          /\ \A u \in Students, taskId \in TaskIds, textContent \in TextInputs,
               file \in FileInputs \ UploadedFiles :
                SubmitResponse(u, taskId, textContent, file).status = 400)
    /\ [][(tasks' # tasks \/ submissions' # submissions) =>
            \A file \in FileInputs \ UploadedFiles :
                /\ \A u \in Users, groupId \in GroupIds, title \in TitleInputs,
                     description \in DescriptionInputs :
                      ~CreateTask(u, groupId, title, description, file)
                /\ \A u \in Users, taskId \in TaskIds, textContent \in TextInputs :
                      ~Submit(u, taskId, textContent, file)]_vars

\* C19: a task with an uploaded file exists, its owner's next creation with a
\* good file would be accepted, and a member's submit with a good file would be
\* accepted
GoodUploadAccepted ==
    \E t \in tasks, u \in Students :
        /\ t.fileUrl # NullText
        /\ CreateTaskResponse(getGroupById(t.groupId).ownerId, t.groupId, "HW1",
                              "Solve it", "good").status = 201
        /\ CreateTaskResponse(getGroupById(t.groupId).ownerId, t.groupId, "HW1",
                              "Solve it", "bad").status = 400
        /\ SubmitResponse(u, t.id, "42", "good").status = 201
        /\ SubmitResponse(u, t.id, "42", "bad").status = 400

\* C18: the owner of a task's group reads, from GET /api/tasks/:taskId/submissions,
\* exactly the submissions of the task, one entry per submitting student, and a
\* student reads from GET /api/tasks/:taskId/my-submission their own entry of
\* that list, with the same score; after the owner grades a submission with a
\* score, both reads return that submission with that score.
GradedSubmissionReadBack ==
    /\ [](\A s \in submissions :
              /\ GetMySubmissionBody(s.studentId, s.taskId) = {s}
              /\ hasTask(s.taskId) =>
                    \A u \in Teachers :
                        isOwner(getTaskById(s.taskId).groupId, u) =>
                            /\ s \in GetTaskSubmissionsBody(u, s.taskId)
                            /\ \A e \in GetTaskSubmissionsBody(u, s.taskId) :
                                  /\ e.taskId = s.taskId
                                  /\ e.studentId = s.studentId => e = s)
    /\ [][submissions' # submissions =>
           \A u \in Teachers, id \in SubmissionIds, score \in ScoreInputs :
             Grade(u, id, score) =>
                 /\ (\E e \in GetTaskSubmissionsBody(u, getSubmissionById(id).taskId) :
                        e.id = id /\ e.score = score)'
                 /\ (\A e \in GetMySubmissionBody(getSubmissionById(id).studentId,
                                                  getSubmissionById(id).taskId) :
                        e.id = id /\ e.score = score)'
                 /\ (GetMySubmissionBody(getSubmissionById(id).studentId,
                                         getSubmissionById(id).taskId) # {})']_vars

\* C18: a member's text submission "42" graded 95 is the one entry the owner
\* reads and the entry the student reads
GradedNinetyFive ==
    \E s \in submissions, g \in groups :
        /\ s.textContent = "42"
        /\ s.score = 95 * Scale
        /\ hasTask(s.taskId)
        /\ g.id = getTaskById(s.taskId).groupId
        /\ isMemberOfGroup(g.id, s.studentId)
        /\ GetTaskSubmissionsBody(g.ownerId, s.taskId) = {s}
        /\ GetMySubmissionBody(s.studentId, s.taskId) = {s}

MembershipPairUnique ==
    \A m1 \in groupMembers, m2 \in groupMembers :
        (m1.groupId = m2.groupId /\ m1.userId = m2.userId) => m1 = m2

\* C23: a join request is still in flight for a pair whose membership row was
\* inserted by another request after this one's pre-check
SecondJoinInFlight ==
    \E req \in BagToSet(inflight), m \in groupMembers :
        /\ "groupId" \in DOMAIN req
        /\ m.groupId = req.groupId
        /\ m.userId = req.userId

LeavingKeepsSubmissions ==
    /\ [](\A s \in submissions, textContent \in TextInputs, file \in UploadedFiles :
              (hasTask(s.taskId)
                  /\ isMemberOfGroup(getTaskById(s.taskId).groupId, s.studentId)) =>
                  SubmitResponse(s.studentId, s.taskId, textContent, file) =
                      R(400, "Already submitted"))
    /\ [][groupMembers' # groupMembers =>
            /\ \A u \in Students, id \in GroupIds :
                  (LeaveGroup(u, id) \/ \E t \in Teachers : RemoveMember(t, id, u)) =>
                      submissions' = submissions
            /\ \A u \in Students, joinCode \in Codes :
                  JoinGroup(u, joinCode) =>
                      \A s \in submissions :
                          (s.studentId = u /\ hasTask(s.taskId)
                              /\ getTaskById(s.taskId).groupId =
                                    getGroupByJoinCode(joinCode).id) =>
                              (SubmitResponse(u, s.taskId, "42", "none") =
                                  R(400, "Already submitted"))']_vars

\* C28: a student with a graded submission is out of the task's group and can
\* join it again
GradedThenLeft ==
    \E s \in submissions, g \in groups :
        /\ hasTask(s.taskId)
        /\ g.id = getTaskById(s.taskId).groupId
        /\ s.score # NullScore
        /\ memberRows(g.id, s.studentId) = {}
        /\ JoinGroupResponse(s.studentId, g.joinCode).status = 200
        /\ SubmitResponse(s.studentId, s.taskId, "42", "none").status = 403

\* C29: a submission whose score is not null keeps a non-null score in every
\* step in which it stays; a step changes of a stored submission nothing but its
\* score, and changes the score only to the score of an accepted grade request
\* for that submission; no step is taken by a grade request that is not
\* answered 200.
ScoreNeverBackToNull ==
    [][submissions' # submissions =>
        /\ \A s \in submissions, s2 \in submissions' :
              s2.id = s.id =>
                  /\ s.score # NullScore => s2.score # NullScore
                  /\ s2 = [s EXCEPT !.score = s2.score]
                  /\ s2.score # s.score =>
                        \E u \in Teachers :
                            /\ GradeResponse(u, s.id, s2.score).status = 200
                            /\ Grade(u, s.id, s2.score)
        /\ \A u \in Users, id \in SubmissionIds, score \in ScoreInputs :
              GradeResponse(u, id, score).status # 200 => ~Grade(u, id, score)]_vars

\* C29: a graded submission whose owner's next grade would be accepted with a
\* score in range and refused with a score out of range
GradedAndRegradable ==
    \E s \in submissions, u \in Teachers :
        /\ s.score = 100 * Scale
        /\ GradeResponse(u, s.id, 0).status = 200
        /\ GradeResponse(u, s.id, 150 * Scale).status = 400
        /\ GradeResponse(u, s.id, NotANumber).status = 400

\* C30 as stated: for a task whose group was deleted, every delete of the task,
\* every teacher's list of its submissions and every grade of a submission to
\* it, by any user, is answered 403 or 404.
OrphanRequestsAnswered403Or404 ==
    \A t \in tasks, u \in Users :
        t.groupId = NullId =>
            /\ DeleteTaskResponse(u, t.id).status \in {403, 404}
            /\ GetTaskSubmissionsResponse(u, t.id).status \in {403, 404}
            /\ \A s \in submissions, score \in ScoreInputs :
                  s.taskId = t.id => GradeResponse(u, s.id, score).status \in {403, 404}

\* C30: for a task whose group was deleted, every delete of the task and every
\* teacher's list of its submissions, by any user, is answered 403; a grade of
\* a submission to it is answered 403, or 400 when a teacher sends a score the
\* schema refuses; no step deletes the task or changes a submission to it.
OrphanRequestsRefused ==
    /\ [](\A t \in tasks, u \in Users :
              t.groupId = NullId =>
                  /\ DeleteTaskResponse(u, t.id).status = 403
                  /\ GetTaskSubmissionsResponse(u, t.id).status = 403
                  /\ \A s \in submissions, score \in ScoreInputs :
                        s.taskId = t.id =>
                            GradeResponse(u, s.id, score).status =
                                IF role(u) = "teacher" /\ ~updateScoreSchema(score)
                                THEN 400 ELSE 403)
    /\ [][\A t \in tasks :
             t.groupId = NullId =>
                 /\ t \in tasks'
                 /\ \A s \in submissions : s.taskId = t.id => s \in submissions']_vars

\* C30: a teacher's requests on a task whose group was deleted and on a
\* submission to it
OrphanRequestsByTeacher ==
    \E t \in tasks, s \in submissions, u \in Teachers :
        /\ t.groupId = NullId
        /\ s.taskId = t.id
        /\ DeleteTaskResponse(u, t.id).status = 403
        /\ GetTaskSubmissionsBody(u, t.id) = {}
        /\ GradeResponse(u, s.id, 95 * Scale).status = 403
        /\ GradeResponse(u, s.id, 150 * Scale).status = 400

\* C25: in the task list of a group read by a student member, the status of a
\* task is not_submitted when the student has no submission for it, submitted
\* when their submission has a null score and graded when it has a score, and
\* the score of the entry is the score of the student's submission (null
\* without one), also when that score is 0.
TaskListStatusAndScore ==
    \A g \in groups, u \in Students :
        isMemberOfGroup(g.id, u) =>
            \A e \in GetGroupTasksBody(u, g.id) :
                LET own == submissionsFor(e.id, u)
                IN  /\ own = {} => e.submissionStatus = "not_submitted" /\ e.score = NullScore
                    /\ own # {} =>
                          /\ e.submissionStatus =
                                IF TheRow(own).score = NullScore THEN "submitted"
                                ELSE "graded"
                          /\ e.score = TheRow(own).score

\* C26: the status GET /api/tasks/upcoming gives a student for a task is the
\* status of the student's own submission to that task, whatever the other
\* students submitted and however they were graded.
UpcomingStatusOwnOnly ==
    \A u \in Students :
        \A e \in GetUpcomingTasksEntries(u) :
            e.submissionStatus = submissionStatus(submissionsFor(e.id, u))

\* what the claims call a well-formed question: non-empty text, non-empty
\* correct answer, at least 2 non-empty options, and a correct answer that is
\* the letter of a non-empty option
wellFormedQuestion(q) ==
    /\ q.questionText # ""
    /\ q.correctAnswer # ""
    /\ Cardinality({i \in DOMAIN q.options : q.options[i] # ""}) >= 2
    /\ \E i \in DOMAIN q.options :
          q.options[i] # "" /\ optionLetters[i] = q.correctAnswer

\* C21: a quiz-creation request is accepted only if it carries at least one
\* question and every question is well-formed; stated for the requests that
\* the form sends and the quiz schema accepts.
QuizAcceptedOnlyWellFormed ==
    \A g \in groups, title \in TitleInputs, description \in DescriptionInputs,
       questions \in QuestionsInputs :
        (/\ handleSubmitQuiz(questions)
         /\ insertQuizTaskSchema(title, description, questions)
         /\ CreateQuizTaskResponse(g.ownerId, g.id, title, description, questions).status
               = 201)
        => (Len(questions) >= 1 /\ \A i \in DOMAIN questions : wellFormedQuestion(questions[i]))

\* C22: a step of a quiz-creation request with well-formed questions by the
\* group's owner creates a task whose taskType is quiz (the questions attached
\* to it in the submitted order would be rows of a questions table, which the
\* store does not have).
QuizTaskCreatedAsQuiz ==
    [][tasks' # tasks =>
        \A g \in groups, title \in TitleInputs, description \in DescriptionInputs,
           questions \in QuestionsInputs :
            (/\ \A i \in DOMAIN questions : wellFormedQuestion(questions[i])
             /\ CreateQuizTask(g.ownerId, g.id, title, description, questions))
            => \E t \in tasks' : t \notin tasks /\ t.taskType = "quiz"]_vars

====
